---- MODULE Spec2Model ----
(***************************************************************************)
(* Model of pr-review-slo: the business-time calendar (business-time.ts),  *)
(* bucket assignment and deadlines (slo.ts and its named-rule variant).    *)
(*                                                                         *)
(* Time.  A JavaScript Date is modelled as an integer number of minutes    *)
(* since 1970-01-01T00:00Z (a Thursday).  A calendar date string           *)
(* "YYYY-MM-DD" is modelled as the number of days since 1970-01-01, which  *)
(* orders the same way as the strings do.  A time zone is modelled by its  *)
(* fixed offset to UTC in minutes (no daylight-saving transitions).        *)
(* Durations in business days may be fractional (0.5) in the source: they  *)
(* are carried as a whole number of half days.                             *)
(***************************************************************************)
EXTENDS Integers, Sequences, FiniteSets, TLC

\* ctx: the BusinessTimeContext; op, args, res: the operation called, its
\* arguments and its result; caller: the arrays and Dates the caller passed
\* by reference, as they are after the call; file: the JSONL file; procs:
\* the executions of appendToJSONL in progress
VARIABLES ctx, op, args, res, caller, file, procs

vars == <<ctx, op, args, res, caller, file, procs>>

\* ---------------------------------------------------------------- bounds
\* request and evaluation instants are drawn from the days 0..MaxDay
MaxDay == 5
\* longest list of PRs handed to computePRDeadlines
MaxPRs == 3

\* ------------------------------------------------------ program constants
\* new Date(8640000000000000), the largest Date: represented by the largest
\* integer of the model, later than every instant the model reaches
MaxDate == 2147483647

\* An optional value (T | undefined, T | null) is carried as a sequence of
\* at most one element: <<>> when absent, <<v>> when present.
Undefined == <<>>
Null == <<>>

\* ------------------------------------------------------- Date primitives
\* date.toISOString().slice(0, 10): the calendar date in UTC
toISODate(date) == date \div 1440

\* date.getDay(): day of week of the wall clock in the process time zone,
\* 0 = Sunday; 1970-01-01 was a Thursday
getDay(date, TZ) == (((date + TZ) \div 1440) + 4) % 7

\* date.getHours(): hour of the wall clock in the process time zone
getHours(date, TZ) == ((date + TZ) % 1440) \div 60

\* date.setDate(date.getDate() + n): same wall-clock time n days later
setDate(date, n) == date + n * 1440

\* date.setHours(h, 0, 0, 0): wall clock in the process time zone set to h:00
setHours(date, h, TZ) == ((date + TZ) \div 1440) * 1440 + h * 60 - TZ

\* new Date(date.toLocaleString("en-US", {timeZone})): the Date whose wall
\* clock in the process time zone reads what `date` reads in `timezone`
toTimezone(date, timezone, TZ) == date + timezone - TZ

\* Intl.DateTimeFormat("en-CA", {timeZone: tz, year, month, day}).format
dateFormatter(date, tz) == (date + tz) \div 1440

\* Intl.DateTimeFormat("en-GB", {timeZone: tz, hour, minute}).format,
\* split at ":" and parsed
timeFormatter(date, tz) ==
    [hour |-> ((date + tz) % 1440) \div 60, minute |-> (date + tz) % 60]

Max(a, b) == IF a >= b THEN a ELSE b
Min(a, b) == IF a <= b THEN a ELSE b

\* ----------------------------------------------------------- business-time
isHoliday(date, holidays) == toISODate(date) \in holidays

isBusinessDay(date, c) ==
    LET tzDate == toTimezone(date, c.config.businessHours.timezone, c.TZ)
        day == getDay(tzDate, c.TZ)
        dayOfWeek == IF day = 0 THEN 7 ELSE day
    IN  IF dayOfWeek \notin c.config.businessDays THEN FALSE
        ELSE IF isHoliday(tzDate, c.holidays) THEN FALSE
        ELSE TRUE

isPTO(date, ptoIntervals) ==
    \E i \in DOMAIN ptoIntervals :
        /\ toISODate(date) >= ptoIntervals[i].start
        /\ toISODate(date) <= ptoIntervals[i].end

getBusinessMinutesForDay(date, fromHour, fromMinute, toHour, toMinute, c) ==
    IF ~isBusinessDay(date, c) \/ isPTO(date, c.ptoIntervals) THEN 0
    ELSE LET effectiveStart == Max(fromHour * 60 + fromMinute,
                                   c.config.businessHours.start * 60)
             effectiveEnd == Min(toHour * 60 + toMinute,
                                 c.config.businessHours.end * 60)
         IN  Max(0, effectiveEnd - effectiveStart)

\* the while loop over the whole days between the first and the last day
RECURSIVE countFullDays(_, _, _)
countFullDays(current, endDateStr, c) ==
    IF dateFormatter(current, c.config.businessHours.timezone) < endDateStr
    THEN (IF isBusinessDay(current, c) /\ ~isPTO(current, c.ptoIntervals)
          THEN (c.config.businessHours.end - c.config.businessHours.start) * 60
          ELSE 0)
         + countFullDays(setDate(current, 1), endDateStr, c)
    ELSE 0

countBusinessMinutes(start, end, c) ==
    IF start >= end THEN 0
    ELSE LET tz == c.config.businessHours.timezone
             startDateStr == dateFormatter(start, tz)
             endDateStr == dateFormatter(end, tz)
             startTime == timeFormatter(start, tz)
             endTime == timeFormatter(end, tz)
         IN  IF startDateStr = endDateStr
             THEN getBusinessMinutesForDay(start, startTime.hour,
                      startTime.minute, endTime.hour, endTime.minute, c)
             ELSE getBusinessMinutesForDay(start, startTime.hour,
                      startTime.minute, 24, 0, c)
                  + countFullDays(setDate(start, 1), endDateStr, c)
                  + getBusinessMinutesForDay(end, 0, 0, endTime.hour,
                        endTime.minute, c)

\* the while loop of addBusinessDays; businessDays2 is twice businessDays
RECURSIVE addBusinessDaysLoop(_, _, _, _)
addBusinessDaysLoop(result, daysAdded, businessDays2, c) ==
    IF 2 * daysAdded < businessDays2
    THEN LET next == setDate(result, 1)
         IN  IF isBusinessDay(next, c) /\ ~isPTO(next, c.ptoIntervals)
             THEN addBusinessDaysLoop(next, daysAdded + 1, businessDays2, c)
             ELSE addBusinessDaysLoop(next, daysAdded, businessDays2, c)
    ELSE result

addBusinessDays(startDate, businessDays2, c) ==
    addBusinessDaysLoop(startDate, 0, businessDays2, c)

\* the while loop of getNextReviewTime over the days after `from`
RECURSIVE nextReviewDayLoop(_, _)
nextReviewDayLoop(result, c) ==
    IF ~isBusinessDay(result, c) \/ isPTO(result, c.ptoIntervals)
    THEN nextReviewDayLoop(setDate(result, 1), c)
    ELSE result

getNextReviewTime(from, reviewHour, c) ==
    LET tzFrom == toTimezone(from, c.config.businessHours.timezone, c.TZ)
    IN  IF /\ getHours(tzFrom, c.TZ) < reviewHour
           /\ isBusinessDay(from, c)
           /\ ~isPTO(from, c.ptoIntervals)
        THEN setHours(from, reviewHour, c.TZ)
        ELSE setHours(nextReviewDayLoop(setDate(from, 1), c), reviewHour,
                      c.TZ)

\* one pass through the body of the while loop of addBusinessDays with the
\* day test never passing
addBusinessDaysBody_neverCounts(result, daysAdded, c) ==
    [result |-> setDate(result, 1), daysAdded |-> daysAdded]

\* one pass through the body of the while loop of addBusinessDays
addBusinessDaysBody(result, daysAdded, c) ==
    LET next == setDate(result, 1)
    IN  [result |-> next,
         daysAdded |-> IF isBusinessDay(next, c)
                          /\ ~isPTO(next, c.ptoIntervals)
                       THEN daysAdded + 1 ELSE daysAdded]

\* ------------------------------------------------- slo: named bucket rules
\* sizeBuckets is the sequence of its entries in insertion order, as
\* Object.entries yields them; each entry carries its key as `name`.
\* bucketMatchesPR with the size ceiling taken as inclusive
bucketMatchesPR_ceilingInclusive(bucket, pr) ==
    IF pr.loc > bucket.maxLoc THEN FALSE
    ELSE IF bucket.asCodeOwner # Undefined
            /\ bucket.asCodeOwner[1] # pr.asCodeOwner THEN FALSE
    ELSE IF bucket.requestedReviewer # Undefined
            /\ bucket.requestedReviewer[1] # pr.requestedReviewer THEN FALSE
    ELSE TRUE

bucketMatchesPR(bucket, pr) ==
    IF pr.loc >= bucket.maxLoc THEN FALSE
    ELSE IF bucket.asCodeOwner # Undefined
            /\ bucket.asCodeOwner[1] # pr.asCodeOwner THEN FALSE
    ELSE IF bucket.requestedReviewer # Undefined
            /\ bucket.requestedReviewer[1] # pr.requestedReviewer THEN FALSE
    ELSE TRUE

\* the for loop of the named-rule assignBucket over entries i..Len
RECURSIVE assignBucketLoop(_, _, _, _)
assignBucketLoop(i, best, pr, sizeBuckets) ==
    IF i > Len(sizeBuckets) THEN best
    ELSE LET bucket == sizeBuckets[i]
         IN  IF ~bucketMatchesPR(bucket, pr)
             THEN assignBucketLoop(i + 1, best, pr, sizeBuckets)
             ELSE IF best = Null
                     \/ bucket.businessDays2 < best[2].businessDays2
             THEN assignBucketLoop(i + 1, <<bucket.name, bucket>>, pr,
                                   sizeBuckets)
             ELSE assignBucketLoop(i + 1, best, pr, sizeBuckets)

\* named-rule assignBucket: <<name, bucket>> or Null
assignBucketNamed(pr, config) ==
    assignBucketLoop(1, Null, pr, config.sizeBuckets)

\* ...pr, bucket, deadline, isOverdue
WithDeadline(pr, bucket, deadline, isOverdue) ==
    pr @@ [bucket |-> bucket, deadline |-> deadline, isOverdue |-> isOverdue]

\* named-rule computeDeadline; wallClock is what `new Date()` returns
computeDeadlineNamed(pr, config, c, wallClock) ==
    LET assigned == assignBucketNamed(pr, config)
    IN  IF assigned = Null
        THEN WithDeadline(pr, Null, MaxDate, FALSE)
        ELSE LET deadline == addBusinessDays(pr.requestedAt,
                                             assigned[2].businessDays2, c)
             IN  WithDeadline(pr, <<assigned[1]>>, deadline,
                              wallClock > deadline)

\* ------------------------------------------------------- slo: size ladder
\* insertion of x behind every entry whose maxLoc is not larger: Array.sort
\* is stable
RECURSIVE insertByMaxLoc(_, _)
insertByMaxLoc(x, sorted) ==
    IF sorted = <<>> THEN <<x>>
    ELSE IF x.maxLoc - Head(sorted).maxLoc < 0 THEN <<x>> \o sorted
    ELSE <<Head(sorted)>> \o insertByMaxLoc(x, Tail(sorted))

RECURSIVE sortByMaxLoc(_)
sortByMaxLoc(entries) ==
    IF entries = <<>> THEN <<>>
    ELSE insertByMaxLoc(entries[Len(entries)],
                        sortByMaxLoc(SubSeq(entries, 1, Len(entries) - 1)))

getSortedBuckets(config) == sortByMaxLoc(config.sizeBuckets)

RECURSIVE firstBucketAbove(_, _, _)
firstBucketAbove(i, loc, sortedBuckets) ==
    IF i > Len(sortedBuckets) THEN Null
    ELSE IF loc < sortedBuckets[i].maxLoc THEN <<sortedBuckets[i].name>>
    ELSE firstBucketAbove(i + 1, loc, sortedBuckets)

\* assignBucket of slo.ts: <<name>> or Null
assignBucket(loc, config) == firstBucketAbove(1, loc, getSortedBuckets(config))

\* config.sizeBuckets[bucket]?.businessDays ?? 0, in half days
getAllowedBusinessDays(bucket, config) ==
    IF bucket = Null THEN 0
    ELSE LET found == { i \in DOMAIN config.sizeBuckets :
                          config.sizeBuckets[i].name = bucket[1] }
         IN  IF found = {} THEN 0
             ELSE config.sizeBuckets[CHOOSE i \in found : TRUE].businessDays2

\* computeDeadline without the sentinel deadline and without the bucket
\* test of isOverdue
computeDeadline_noSentinel(pr, config, c, wallClock) ==
    LET bucket == assignBucket(pr.loc, config)
        businessDays2 == getAllowedBusinessDays(bucket, config)
        deadline == addBusinessDays(pr.requestedAt, businessDays2, c)
        isOverdue == wallClock > deadline
    IN  WithDeadline(pr, IF bucket = Null THEN "excluded" ELSE bucket[1],
                     deadline, isOverdue)

\* computeDeadline of slo.ts; wallClock is what `new Date()` returns
computeDeadline(pr, config, c, wallClock) ==
    LET bucket == assignBucket(pr.loc, config)
        businessDays2 == getAllowedBusinessDays(bucket, config)
        deadline == IF bucket = Null THEN MaxDate
                    ELSE addBusinessDays(pr.requestedAt, businessDays2, c)
        isOverdue == bucket # Null /\ wallClock > deadline
    IN  WithDeadline(pr, IF bucket = Null THEN "excluded" ELSE bucket[1],
                     deadline, isOverdue)

\* prs.map(pr => computeDeadline(pr, config, ctx))
mapComputeDeadline(prs, config, c, wallClock) ==
    [i \in DOMAIN prs |-> computeDeadline(prs[i], config, c, wallClock)]

\* .filter(pr => pr.bucket !== "excluded")
RECURSIVE filterNotExcluded(_)
filterNotExcluded(prs) ==
    IF prs = <<>> THEN <<>>
    ELSE (IF Head(prs).bucket # "excluded" THEN <<Head(prs)>> ELSE <<>>)
         \o filterNotExcluded(Tail(prs))

\* the insertion of a sort that puts an item before its equals
RECURSIVE insertByDeadline_unstable(_, _)
insertByDeadline_unstable(x, sorted) ==
    IF sorted = <<>> THEN <<x>>
    ELSE IF x.deadline - Head(sorted).deadline <= 0 THEN <<x>> \o sorted
    ELSE <<Head(sorted)>> \o insertByDeadline_unstable(x, Tail(sorted))

\* .sort((a, b) => a.deadline.getTime() - b.deadline.getTime()), stable
RECURSIVE insertByDeadline(_, _)
insertByDeadline(x, sorted) ==
    IF sorted = <<>> THEN <<x>>
    ELSE IF x.deadline - Head(sorted).deadline < 0 THEN <<x>> \o sorted
    ELSE <<Head(sorted)>> \o insertByDeadline(x, Tail(sorted))

RECURSIVE sortByDeadline(_)
sortByDeadline(prs) ==
    IF prs = <<>> THEN <<>>
    ELSE insertByDeadline(prs[Len(prs)],
                          sortByDeadline(SubSeq(prs, 1, Len(prs) - 1)))

computePRDeadlines(prs, config, c, wallClock) ==
    sortByDeadline(filterNotExcluded(
        mapComputeDeadline(prs, config, c, wallClock)))

getMinDeadline(prs) ==
    IF Len(prs) = 0 THEN Null ELSE <<prs[1].deadline>>

\* ------------------------------------------------------------- slo: ledger
\* A BudgetRun is carried as [runAt, prs]; an entry of prs carries
\* requestedAt, loc and reviewedAt (Null while the review is outstanding).
\* .filter(run => runAt >= windowStart && runAt <= windowEnd)
RECURSIVE filterRunsInWindow(_, _, _)
filterRunsInWindow(budgetRuns, windowStart, windowEnd) ==
    IF budgetRuns = <<>> THEN <<>>
    ELSE (IF Head(budgetRuns).runAt >= windowStart
             /\ Head(budgetRuns).runAt <= windowEnd
          THEN <<Head(budgetRuns)>> ELSE <<>>)
         \o filterRunsInWindow(Tail(budgetRuns), windowStart, windowEnd)

\* .sort((a, b) => new Date(a.runAt).getTime() - new Date(b.runAt).getTime())
RECURSIVE insertByRunAt(_, _)
insertByRunAt(x, sorted) ==
    IF sorted = <<>> THEN <<x>>
    ELSE IF x.runAt - Head(sorted).runAt < 0 THEN <<x>> \o sorted
    ELSE <<Head(sorted)>> \o insertByRunAt(x, Tail(sorted))

\* the runs taken in the order of the array, the .sort(...) left out
sortByRunAt_asStored(runs) == runs

RECURSIVE sortByRunAt(_)
sortByRunAt(runs) ==
    IF runs = <<>> THEN <<>>
    ELSE insertByRunAt(runs[Len(runs)],
                       sortByRunAt(SubSeq(runs, 1, Len(runs) - 1)))

\* the for loop over run.prs, entries i..Len: the minimum deadline of the
\* entries that have a bucket and are not reviewed at or before run.runAt
RECURSIVE minDeadlineOfRun(_, _, _, _)
minDeadlineOfRun(i, minDeadline, run, c) ==
    IF i > Len(run.prs) THEN minDeadline
    ELSE LET pr == run.prs[i]
             bucket == assignBucket(pr.loc, c.config)
             deadline == addBusinessDays(pr.requestedAt,
                             getAllowedBusinessDays(bucket, c.config), c)
         IN  IF bucket = Null
             THEN minDeadlineOfRun(i + 1, minDeadline, run, c)
             ELSE IF pr.reviewedAt # Null /\ pr.reviewedAt[1] <= run.runAt
             THEN minDeadlineOfRun(i + 1, minDeadline, run, c)
             ELSE IF minDeadline = Null \/ deadline < minDeadline[1]
             THEN minDeadlineOfRun(i + 1, <<deadline>>, run, c)
             ELSE minDeadlineOfRun(i + 1, minDeadline, run, c)

\* the body of the loop over the runs with the bad interval begun at the
\* minimum deadline, whatever the previous run
badMinutesOfRun_fromDeadline(run, prevRunAt, windowStart, windowEnd, c) ==
    LET runAt == run.runAt
        minDeadline == minDeadlineOfRun(1, Null, run, c)
    IN  IF minDeadline # Null /\ minDeadline[1] < runAt
        THEN LET badStart == minDeadline[1]
                 badEnd == runAt
                 overlapStart == IF badStart < windowStart THEN windowStart
                                 ELSE badStart
                 overlapEnd == IF badEnd > windowEnd THEN windowEnd
                               ELSE badEnd
             IN  IF overlapStart < overlapEnd
                 THEN countBusinessMinutes(overlapStart, overlapEnd, c)
                 ELSE 0
        ELSE 0

\* the body of the loop over the runs: what one run adds to badMinutes;
\* prevRunAt is Null for the first run
badMinutesOfRun(run, prevRunAt, windowStart, windowEnd, c) ==
    LET runAt == run.runAt
        minDeadline == minDeadlineOfRun(1, Null, run, c)
    IN  IF minDeadline # Null /\ minDeadline[1] < runAt
        THEN LET badStart == IF prevRunAt # Null
                                /\ prevRunAt[1] > minDeadline[1]
                             THEN prevRunAt[1] ELSE minDeadline[1]
                 badEnd == runAt
                 overlapStart == IF badStart < windowStart THEN windowStart
                                 ELSE badStart
                 overlapEnd == IF badEnd > windowEnd THEN windowEnd
                               ELSE badEnd
             IN  IF overlapStart < overlapEnd
                 THEN countBusinessMinutes(overlapStart, overlapEnd, c)
                 ELSE 0
        ELSE 0

\* the loop over sortedRuns, runs i..Len
RECURSIVE sumBadMinutes(_, _, _, _, _)
sumBadMinutes(i, sortedRuns, windowStart, windowEnd, c) ==
    IF i > Len(sortedRuns) THEN 0
    ELSE badMinutesOfRun(sortedRuns[i],
             IF i > 1 THEN <<sortedRuns[i - 1].runAt>> ELSE Null,
             windowStart, windowEnd, c)
         + sumBadMinutes(i + 1, sortedRuns, windowStart, windowEnd, c)

computeBadMinutesInWindow(budgetRuns, windowStart, windowEnd, c) ==
    sumBadMinutes(1,
        sortByRunAt(filterRunsInWindow(budgetRuns, windowStart, windowEnd)),
        windowStart, windowEnd, c)

getTotalBusinessMinutesInWindow(windowStart, windowEnd, c) ==
    countBusinessMinutes(windowStart, windowEnd, c)

\* ------------------------------------------------- slo: double arithmetic
\* Counts of minutes are integers, which a JavaScript number holds exactly.
\* Any other number is carried as [num, den, err] with den > 0: it is the
\* double nearest to a real that lies within 2^-40 of the rational num/den,
\* on the side err says (-1 below, 0 on it, 1 above).  The rationals met
\* here have numerators and denominators below 2^20, so two numbers of
\* different num/den are ordered as the rationals are; two numbers of equal
\* num/den are ordered by err: where the program compares such numbers, the
\* deviation is of one unit in the last place or more, and rounding keeps it
\* (1 - 0.9 is 0.09999999999999998, and n * 0.09999999999999998 is below the
\* double nearest to n / 10 for every n of 1..20000).
Dbl(num, den, err) == [num |-> num, den |-> den, err |-> err]

\* an integer as a number
fromInt(n) == Dbl(n, 1, 0)

Sign(n) == IF n > 0 THEN 1 ELSE IF n < 0 THEN -1 ELSE 0

\* x < y
flt(x, y) ==
    \/ x.num * y.den < y.num * x.den
    \/ x.num * y.den = y.num * x.den /\ x.err < y.err

\* x > y, x >= y
fgt(x, y) == flt(y, x)
fge(x, y) == ~flt(x, y)

\* the sign of (the double nearest to num/den) - num/den for a target:
\* 1/2, 3/4 and 1 are doubles; 0.9 is stored as 0.90000000000000002220
roundingOf(target) ==
    CASE target.den \in {1, 2, 4, 8} -> 0
      [] target.num * 10 = target.den * 9 -> 1

\* 1 - target, exact for a target of 0.5 or more: the rounding of the target
\* shows, mirrored, in the difference
oneMinus(target) ==
    Dbl(target.den - target.num, target.den, 0 - roundingOf(target))

\* n * x for an integer n >= 0
fmulInt(n, x) == Dbl(n * x.num, x.den, IF n = 0 THEN 0 ELSE x.err)

\* x - n for an integer n
fsubInt(x, n) == Dbl(x.num - n * x.den, x.den, x.err)

\* n / m for integers n and m > 0: the double nearest to the quotient
fdivInts(n, m) == Dbl(n, m, 0)

\* n / x for an integer n and a number x > 0
fdivInt(n, x) ==
    IF x.num = 0 THEN Dbl(Sign(n), 1, 0)
    ELSE Dbl(n * x.den, x.num, 0 - Sign(n) * x.err)

\* ---------------------------------------------------------------- slo: SLI
\* computeSLI with the budget taken as total * target
computeSLI_budgetOfTarget(budgetRuns, windowStart, windowEnd, c) ==
    LET totalBusinessMinutes ==
            getTotalBusinessMinutesInWindow(windowStart, windowEnd, c)
        badMinutes ==
            computeBadMinutesInWindow(budgetRuns, windowStart, windowEnd, c)
        goodMinutes == totalBusinessMinutes - badMinutes
        sli == IF totalBusinessMinutes > 0
               THEN fdivInts(goodMinutes, totalBusinessMinutes)
               ELSE fromInt(1)
        budgetMinutes ==
            fmulInt(totalBusinessMinutes,
                    Dbl(c.config.slo.target.num, c.config.slo.target.den,
                        roundingOf(c.config.slo.target)))
        budgetRemaining == fsubInt(budgetMinutes, badMinutes)
        isMet == fge(sli, Dbl(c.config.slo.target.num,
                              c.config.slo.target.den, 0))
    IN  [goodMinutes |-> goodMinutes,
         totalBusinessMinutes |-> totalBusinessMinutes,
         sli |-> sli,
         budgetMinutes |-> budgetMinutes,
         badMinutes |-> badMinutes,
         budgetRemaining |-> budgetRemaining,
         isMet |-> isMet]

\* config.slo.target is the double nearest to target.num / target.den
computeSLI(budgetRuns, windowStart, windowEnd, c) ==
    LET totalBusinessMinutes ==
            getTotalBusinessMinutesInWindow(windowStart, windowEnd, c)
        badMinutes ==
            computeBadMinutesInWindow(budgetRuns, windowStart, windowEnd, c)
        goodMinutes == totalBusinessMinutes - badMinutes
        sli == IF totalBusinessMinutes > 0
               THEN fdivInts(goodMinutes, totalBusinessMinutes)
               ELSE fromInt(1)
        budgetMinutes ==
            fmulInt(totalBusinessMinutes, oneMinus(c.config.slo.target))
        budgetRemaining == fsubInt(budgetMinutes, badMinutes)
        isMet == fge(sli, Dbl(c.config.slo.target.num,
                              c.config.slo.target.den, 0))
    IN  [goodMinutes |-> goodMinutes,
         totalBusinessMinutes |-> totalBusinessMinutes,
         sli |-> sli,
         budgetMinutes |-> budgetMinutes,
         badMinutes |-> badMinutes,
         budgetRemaining |-> budgetRemaining,
         isMet |-> isMet]

\* ------------------------------------------------------------ slo: planner
\* Math.min, Math.max
fmin(x, y) == IF flt(y, x) THEN y ELSE x
fmax(x, y) == IF fgt(y, x) THEN y ELSE x

\* the projection with the bad interval run from `now` to the deadline
projectedBad_untilDeadline(minDeadline, now, nextReviewTime, c) ==
    IF minDeadline # Null /\ minDeadline[1] < nextReviewTime
    THEN LET badStart == IF now > minDeadline[1] THEN now
                         ELSE minDeadline[1]
         IN  countBusinessMinutes(now, badStart, c)
    ELSE 0

\* the bad minutes projected until nextReviewTime when the earliest
\* deadline outstanding is minDeadline (Null when nothing is outstanding)
projectedBad(minDeadline, now, nextReviewTime, c) ==
    IF minDeadline # Null /\ minDeadline[1] < nextReviewTime
    THEN LET badStart == IF now > minDeadline[1] THEN now
                         ELSE minDeadline[1]
         IN  countBusinessMinutes(badStart, nextReviewTime, c)
    ELSE 0

\* the while loop with the mandatory item left in remainingPRs
RECURSIVE mustDoLoop_noSlice(_, _, _, _, _, _, _)
mustDoLoop_noSlice(mustDoToday, remainingPRs, histBadMinutes, budgetMinutes, now, nextReviewTime, c) ==
    IF Len(remainingPRs) > 0 /\ Len(mustDoToday) < Len(remainingPRs)
    THEN LET nextMinDeadline == getMinDeadline(remainingPRs)
             projBad == projectedBad(nextMinDeadline, now, nextReviewTime, c)
             totalBadIfNoReview == histBadMinutes + projBad
         IN  IF fgt(fromInt(totalBadIfNoReview), budgetMinutes)
             THEN mustDoLoop_noSlice(Append(mustDoToday, remainingPRs[1]),
                      remainingPRs, histBadMinutes, budgetMinutes,
                      now, nextReviewTime, c)
             ELSE [mustDoToday |-> mustDoToday,
                   remainingPRs |-> remainingPRs]
    ELSE [mustDoToday |-> mustDoToday, remainingPRs |-> remainingPRs]

\* the while loop that moves the head of remainingPRs to mustDoToday while
\* the budget would be exceeded
RECURSIVE mustDoLoop(_, _, _, _, _, _, _)
mustDoLoop(mustDoToday, remainingPRs, histBadMinutes, budgetMinutes, now, nextReviewTime, c) ==
    IF Len(remainingPRs) > 0
    THEN LET nextMinDeadline == getMinDeadline(remainingPRs)
             projBad == projectedBad(nextMinDeadline, now, nextReviewTime, c)
             totalBadIfNoReview == histBadMinutes + projBad
         IN  IF fgt(fromInt(totalBadIfNoReview), budgetMinutes)
             THEN mustDoLoop(Append(mustDoToday, remainingPRs[1]),
                      Tail(remainingPRs), histBadMinutes, budgetMinutes,
                      now, nextReviewTime, c)
             ELSE [mustDoToday |-> mustDoToday,
                   remainingPRs |-> remainingPRs]
    ELSE [mustDoToday |-> mustDoToday, remainingPRs |-> remainingPRs]

\* the share of the remaining budget without the bounds 0 and 1
percentOfRemainingBudget_unclamped(savedBadMinutes, budgetMinutes, histBadMinutes) ==
    LET remainingBudget == fsubInt(budgetMinutes, histBadMinutes)
    IN  IF fgt(remainingBudget, fromInt(0))
        THEN fdivInt(savedBadMinutes, remainingBudget)
        ELSE fromInt(0)

percentOfRemainingBudget(savedBadMinutes, budgetMinutes, histBadMinutes) ==
    LET remainingBudget == fsubInt(budgetMinutes, histBadMinutes)
    IN  IF fgt(remainingBudget, fromInt(0))
        THEN fmin(fromInt(1),
                  fmax(fromInt(0), fdivInt(savedBadMinutes, remainingBudget)))
        ELSE fromInt(0)

\* the extra-credit loop without the test of the deadline
RECURSIVE extraCreditLoop_noSkip(_, _, _, _, _, _, _, _)
extraCreditLoop_noSkip(i, remainingPRs, projectedBadMinutesIfNoReviews, histBadMinutes, budgetMinutes, now, nextReviewTime, c) ==
    IF i > Len(remainingPRs) THEN <<>>
    ELSE LET pr == remainingPRs[i]
             prsAfterThis == SubSeq(remainingPRs, i + 1, Len(remainingPRs))
             nextDeadlineAfterThis == getMinDeadline(prsAfterThis)
             projBadAfterReviewing ==
                 projectedBad(nextDeadlineAfterThis, now, nextReviewTime, c)
             savedBadMinutes ==
                 projectedBadMinutesIfNoReviews - projBadAfterReviewing
             rest == extraCreditLoop_noSkip(i + 1, remainingPRs,
                         projectedBadMinutesIfNoReviews, histBadMinutes,
                         budgetMinutes, now, nextReviewTime, c)
         IN  <<pr @@ [savedBadMinutes |-> savedBadMinutes,
                      percentOfRemainingBudget |->
                          percentOfRemainingBudget(savedBadMinutes,
                              budgetMinutes, histBadMinutes)]>> \o rest

\* the for loop over remainingPRs, items i..Len
RECURSIVE extraCreditLoop(_, _, _, _, _, _, _, _)
extraCreditLoop(i, remainingPRs, projectedBadMinutesIfNoReviews, histBadMinutes, budgetMinutes, now, nextReviewTime, c) ==
    IF i > Len(remainingPRs) THEN <<>>
    ELSE LET pr == remainingPRs[i]
             prsAfterThis == SubSeq(remainingPRs, i + 1, Len(remainingPRs))
             nextDeadlineAfterThis == getMinDeadline(prsAfterThis)
             projBadAfterReviewing ==
                 projectedBad(nextDeadlineAfterThis, now, nextReviewTime, c)
             savedBadMinutes ==
                 projectedBadMinutesIfNoReviews - projBadAfterReviewing
             rest == extraCreditLoop(i + 1, remainingPRs,
                         projectedBadMinutesIfNoReviews, histBadMinutes,
                         budgetMinutes, now, nextReviewTime, c)
         IN  IF pr.deadline >= nextReviewTime THEN rest
             ELSE <<pr @@ [savedBadMinutes |-> savedBadMinutes,
                           percentOfRemainingBudget |->
                               percentOfRemainingBudget(savedBadMinutes,
                                   budgetMinutes, histBadMinutes)]>> \o rest

computeReviewRecommendations(prs, budgetRuns, now, nextReviewTime, c) ==
    LET windowStart == setDate(nextReviewTime, 0 - c.config.slo.windowDays)
        histBadMinutes ==
            computeBadMinutesInWindow(budgetRuns, windowStart,
                                      nextReviewTime, c)
        totalBusinessMinutes ==
            getTotalBusinessMinutesInWindow(windowStart, nextReviewTime, c)
        budgetMinutes ==
            fmulInt(totalBusinessMinutes, oneMinus(c.config.slo.target))
        sortedPRs == sortByDeadline(prs)
        minDeadline == getMinDeadline(sortedPRs)
        projectedBadMinutesIfNoReviews ==
            projectedBad(minDeadline, now, nextReviewTime, c)
        loop == mustDoLoop(<<>>, sortedPRs, histBadMinutes, budgetMinutes,
                           now, nextReviewTime, c)
        extraCredit ==
            extraCreditLoop(1, loop.remainingPRs,
                projectedBadMinutesIfNoReviews, histBadMinutes,
                budgetMinutes, now, nextReviewTime, c)
    IN  [mustDoToday |-> loop.mustDoToday,
         extraCredit |-> extraCredit,
         projectedBadMinutesIfNoReviews |-> projectedBadMinutesIfNoReviews,
         histBadMinutes |-> histBadMinutes,
         budgetMinutes |-> budgetMinutes]

\* ------------------------------------- slo: objects passed by reference
\* Arrays and Dates are objects: the caller and the callee hold the same
\* object, and sort and setDate change it in place.  A store maps the names
\* of the objects in scope to their values.
\* new Date(d), [...xs]: a new object with the value of an existing one
copyOf(store, name, from) == (name :> store[from]) @@ store

\* the objects of the caller after computeBadMinutesInWindow: the runs are
\* spread into a new array, filter returns a new array, sort sorts that one
objectsAfterLedger(store) ==
    LET s1 == copyOf(store, "spread", "budgetRuns")
        s2 == ("sortedRuns" :> filterRunsInWindow(s1["spread"],
                                   s1["windowStart"], s1["windowEnd"])) @@ s1
        s3 == [s2 EXCEPT !["sortedRuns"] = sortByRunAt(@)]
    IN  [n \in DOMAIN store |-> s3[n]]

\* the planner with prs.sort(...) in place of [...prs].sort(...)
objectsAfterPlanner_sortInPlace(store, c) ==
    LET s1 == copyOf(store, "windowStart", "nextReviewTime")
        s2 == [s1 EXCEPT !["windowStart"] =
                   setDate(@, 0 - c.config.slo.windowDays)]
        ledger == objectsAfterLedger(
                      [budgetRuns |-> s2["budgetRuns"],
                       windowStart |-> s2["windowStart"],
                       windowEnd |-> s2["nextReviewTime"]])
        s3 == [s2 EXCEPT !["budgetRuns"] = ledger.budgetRuns,
                         !["windowStart"] = ledger.windowStart,
                         !["nextReviewTime"] = ledger.windowEnd]
        s4 == [s3 EXCEPT !["prs"] = sortByDeadline(@)]
    IN  [n \in DOMAIN store |-> s4[n]]

\* the objects of the caller after computeReviewRecommendations: windowStart
\* is a new Date set back by windowDays, the ledger is called with it and
\* with nextReviewTime, the items are spread into a new array that is sorted
objectsAfterPlanner(store, c) ==
    LET s1 == copyOf(store, "windowStart", "nextReviewTime")
        s2 == [s1 EXCEPT !["windowStart"] =
                   setDate(@, 0 - c.config.slo.windowDays)]
        ledger == objectsAfterLedger(
                      [budgetRuns |-> s2["budgetRuns"],
                       windowStart |-> s2["windowStart"],
                       windowEnd |-> s2["nextReviewTime"]])
        s3 == [s2 EXCEPT !["budgetRuns"] = ledger.budgetRuns,
                         !["windowStart"] = ledger.windowStart,
                         !["nextReviewTime"] = ledger.windowEnd]
        s4 == copyOf(s3, "sortedPRs", "prs")
        s5 == [s4 EXCEPT !["sortedPRs"] = sortByDeadline(@)]
    IN  [n \in DOMAIN store |-> s5[n]]

\* ------------------------------------------------------------------ inputs
\* time zones: UTC and America/Los_Angeles (standard time, UTC-8)
TimeZones == {0, -480}

\* wall-clock times of day (UTC) of the instants drawn: 00:30, 09:00,
\* 12:10, 17:15, 20:00; in Los Angeles 16:30, 01:00, 04:10, 09:15, 12:00
TimesOfDay == {30, 540, 730, 1035, 1200}

Instants == {d * 1440 + t : d \in 0..MaxDay, t \in TimesOfDay}

\* durations in half business days: 0, 0.5, 1, 1.5, 2 and 3 days
Durations == {0, 1, 2, 3, 4, 6}

\* day 0 is Thursday 1970-01-01, so day 4 is a Monday and day 5 a Tuesday
HolidayChoices == {{}, {4}}

PTOChoices ==
    { <<>>,
      <<[start |-> 5, end |-> 5]>>,
      <<[start |-> 1, end |-> 1], [start |-> 4, end |-> 5]>> }

\* sizeBuckets of DEFAULT_CONFIG, in insertion order
Rule(name, maxLoc, businessDays2, asCodeOwner, requestedReviewer) ==
    [name |-> name, maxLoc |-> maxLoc, businessDays2 |-> businessDays2,
     asCodeOwner |-> asCodeOwner, requestedReviewer |-> requestedReviewer]

Small == Rule("small", 200, 2, Undefined, Undefined)
Medium == Rule("medium", 800, 6, Undefined, Undefined)

DefaultBuckets == <<Small, Medium>>

\* the rule sets of slo.test.ts, the empty rule set, a ladder listed in
\* descending order, two rules of equal duration in both orders, and a
\* wider rule that is more urgent than a narrower one
RuleSets ==
    { <<>>,
      DefaultBuckets,
      <<Medium, Small>>,
      <<Small, Medium,
        Rule("code-owner-urgent", 800, 1, <<TRUE>>, Undefined)>>,
      <<Small, Rule("team-urgent", 500, 1, Undefined, <<"core-team">>)>>,
      <<Medium, Rule("team-urgent", 500, 1, Undefined, <<"core-team">>)>>,
      <<Rule("code-owner-only", 800, 2, <<TRUE>>, Undefined)>>,
      <<Small, Rule("wide", 800, 2, Undefined, Undefined)>>,
      <<Rule("wide", 800, 2, Undefined, Undefined), Small>>,
      <<Rule("slow", 200, 6, Undefined, Undefined),
        Rule("fast", 800, 2, Undefined, Undefined)>> }

MakeCtx(timezone, TZ, holidays, pto, buckets) ==
    [config |-> [businessHours |-> [start |-> 9, end |-> 17,
                                    timezone |-> timezone],
                 businessDays |-> {1, 2, 3, 4, 5},
                 sizeBuckets |-> buckets],
     TZ |-> TZ,
     holidays |-> holidays,
     ptoIntervals |-> pto]

Calendars ==
    { MakeCtx(tz, TZ, h, p, DefaultBuckets) :
        tz \in TimeZones, TZ \in TimeZones,
        h \in HolidayChoices, p \in PTOChoices }

\* -------------------------------------------------------------- behaviour
Init ==
    /\ ctx \in Calendars
    /\ op = "idle"
    /\ args = <<>>
    /\ res = <<>>
    /\ caller = <<>>
    /\ file = <<>>
    /\ procs = <<>>

CountBusinessMinutes ==
    /\ op = "idle"
    /\ \E start \in Instants, end \in Instants :
        /\ op' = "countBusinessMinutes"
        /\ args' = [start |-> start, end |-> end]
        /\ res' = countBusinessMinutes(start, end, ctx)
    /\ UNCHANGED <<ctx, caller, file, procs>>

\* countBusinessMinutes over [a, c) and over its two parts [a, b), [b, c)
CountBusinessMinutesSplit ==
    /\ op = "idle"
    /\ \E a \in Instants, b \in Instants, c \in Instants :
        /\ a <= b /\ b <= c
        /\ op' = "countBusinessMinutesSplit"
        /\ args' = [a |-> a, b |-> b, c |-> c]
        /\ res' = [whole |-> countBusinessMinutes(a, c, ctx),
                   first |-> countBusinessMinutes(a, b, ctx),
                   second |-> countBusinessMinutes(b, c, ctx)]
    /\ UNCHANGED <<ctx, caller, file, procs>>

AddBusinessDays ==
    /\ op = "idle"
    /\ \E startDate \in Instants, businessDays2 \in Durations :
        /\ op' = "addBusinessDays"
        /\ args' = [startDate |-> startDate, businessDays2 |-> businessDays2]
        /\ res' = addBusinessDays(startDate, businessDays2, ctx)
    /\ UNCHANGED <<ctx, caller, file, procs>>

\* addBusinessDays applied to its own result, and to the summed duration
AddBusinessDaysTwice ==
    /\ op = "idle"
    /\ \E d \in Instants, m2 \in Durations, n2 \in Durations :
        /\ op' = "addBusinessDaysTwice"
        /\ args' = [d |-> d, m2 |-> m2, n2 |-> n2]
        /\ res' = [composed |-> addBusinessDays(
                                    addBusinessDays(d, m2, ctx), n2, ctx),
                   direct |-> addBusinessDays(d, m2 + n2, ctx)]
    /\ UNCHANGED <<ctx, caller, file, procs>>

\* options.reviewHour: the default 12, and 17
ReviewHours == {12, 17}

GetNextReviewTime ==
    /\ op = "idle"
    /\ \E from \in Instants, reviewHour \in ReviewHours :
        /\ op' = "getNextReviewTime"
        /\ args' = [from |-> from, reviewHour |-> reviewHour]
        /\ res' = getNextReviewTime(from, reviewHour, ctx)
    /\ UNCHANGED <<ctx, caller, file, procs>>

Next ==
    \/ CountBusinessMinutes
    \/ CountBusinessMinutesSplit
    \/ AddBusinessDays
    \/ AddBusinessDaysTwice
    \/ GetNextReviewTime

Spec == Init /\ [][Next]_vars

\* ------------------------------------------- behaviour: buckets, deadlines
\* calendars of the deadline engine: process and business time zone equal
SloContexts ==
    { MakeCtx(z, z, h, <<>>, rs) :
        z \in TimeZones, h \in HolidayChoices, rs \in RuleSets }

\* request instants: Thursday 00:30, Friday 17:15, Saturday 09:00 and
\* Monday 09:00 (UTC)
RequestTimes == {30, 1440 + 1035, 2 * 1440 + 540, 4 * 1440 + 540}

\* evaluation instants: 20:00 UTC of every day
EvalInstants == {d * 1440 + 1200 : d \in 0..MaxDay}

Locs == {100, 200, 600, 800}

PRs ==
    [number : {1}, loc : Locs, asCodeOwner : BOOLEAN,
     requestedReviewer : {"core-team", "someone"},
     requestedAt : RequestTimes]

\* the PRs of a list differ in size and request instant; the number of a
\* PR is its position in the list
ListEntries == [loc : {100, 600, 800}, requestedAt : RequestTimes \ {30}]

PRLists ==
    UNION { [1..n -> ListEntries] : n \in 0..MaxPRs }

MakePRs(entries) ==
    [i \in DOMAIN entries |->
        [number |-> i, loc |-> entries[i].loc, asCodeOwner |-> FALSE,
         requestedReviewer |-> "someone",
         requestedAt |-> entries[i].requestedAt]]

\* the Config of slo.ts has size ceilings and durations only
IsLadder(config) ==
    \A i \in DOMAIN config.sizeBuckets :
        /\ config.sizeBuckets[i].asCodeOwner = Undefined
        /\ config.sizeBuckets[i].requestedReviewer = Undefined

InitSlo ==
    /\ ctx \in SloContexts
    /\ op = "idle"
    /\ args = <<>>
    /\ res = <<>>
    /\ caller = <<>>
    /\ file = <<>>
    /\ procs = <<>>

AssignBucket ==
    /\ op = "idle"
    /\ \E pr \in PRs :
        /\ op' = "assignBucket"
        /\ args' = [pr |-> pr]
        /\ res' = assignBucketNamed(pr, ctx.config)
    /\ UNCHANGED <<ctx, caller, file, procs>>

\* the caller evaluates at `now`; computeDeadline reads the clock itself,
\* at or after `now`
ComputeDeadline ==
    /\ op = "idle"
    /\ IsLadder(ctx.config)
    /\ \E pr \in PRs, now \in EvalInstants, wallClock \in EvalInstants :
        /\ now <= wallClock
        /\ op' = "computeDeadline"
        /\ args' = [pr |-> pr, now |-> now, wallClock |-> wallClock]
        /\ res' = computeDeadline(pr, ctx.config, ctx, wallClock)
    /\ UNCHANGED <<ctx, caller, file, procs>>

ComputeDeadlineNamed ==
    /\ op = "idle"
    /\ \E pr \in PRs, now \in EvalInstants, wallClock \in EvalInstants :
        /\ now <= wallClock
        /\ op' = "computeDeadlineNamed"
        /\ args' = [pr |-> pr, now |-> now, wallClock |-> wallClock]
        /\ res' = computeDeadlineNamed(pr, ctx.config, ctx, wallClock)
    /\ UNCHANGED <<ctx, caller, file, procs>>

\* computePRDeadlines followed by getMinDeadline of its result
ComputePRDeadlines ==
    /\ op = "idle"
    /\ IsLadder(ctx.config)
    /\ \E entries \in PRLists, wallClock \in {3 * 1440 + 1200} :
        LET prs == MakePRs(entries)
            sorted == computePRDeadlines(prs, ctx.config, ctx, wallClock)
        IN  /\ op' = "computePRDeadlines"
            /\ args' = [prs |-> prs]
            /\ res' = [sorted |-> sorted,
                       minDeadline |-> getMinDeadline(sorted)]
    /\ UNCHANGED <<ctx, caller, file, procs>>

\* the two assigners on the same item and the same predicate-free rule set
AssignBucketBoth ==
    /\ op = "idle"
    /\ IsLadder(ctx.config)
    /\ \E pr \in PRs :
        /\ op' = "assignBucketBoth"
        /\ args' = [pr |-> pr]
        /\ res' = [ladder |-> assignBucket(pr.loc, ctx.config),
                   named |-> assignBucketNamed(pr, ctx.config)]
    /\ UNCHANGED <<ctx, caller, file, procs>>

NextSlo ==
    \/ AssignBucket
    \/ AssignBucketBoth
    \/ ComputeDeadline
    \/ ComputeDeadlineNamed
    \/ ComputePRDeadlines

SpecSlo == InitSlo /\ [][NextSlo]_vars

\* ------------------------------------------- behaviour: ledger and planner
\* config.slo of a context; the target is the double nearest to num/den
WithSlo(c, target, windowDays) ==
    [c EXCEPT !.config =
        @ @@ [slo |-> [target |-> target, windowDays |-> windowDays]]]

\* slo.target: 0.5, the default 0.9, and 1
Targets ==
    { [num |-> 1, den |-> 2], [num |-> 9, den |-> 10], [num |-> 1, den |-> 1] }

\* calendars of the ledger: no holiday, no PTO or PTO on Tuesday 1970-01-06,
\* a window of 4 days
BudgetContexts ==
    { WithSlo(MakeCtx(z, z, {}, p, DefaultBuckets), t, 4) :
        z \in TimeZones, p \in {<<>>, <<[start |-> 5, end |-> 5]>>},
        t \in Targets }

\* an entry of run.prs
RunPR(requestedAt, loc, reviewedAt) ==
    [requestedAt |-> requestedAt, loc |-> loc, reviewedAt |-> reviewedAt]

\* the queues seen by a run.  Items: a small one requested Thursday 12:10
\* (due Friday 12:10), the same one reviewed Monday 20:00, a small one
\* requested Friday 17:15 (due Monday 17:15), one too large for any bucket
Queues ==
    { <<>>,
      <<RunPR(730, 100, Null)>>,
      <<RunPR(730, 100, <<4 * 1440 + 1200>>)>>,
      <<RunPR(30, 800, Null), RunPR(1440 + 1035, 100, Null)>>,
      <<RunPR(1440 + 1035, 100, Null), RunPR(730, 100, Null)>> }

\* run instants: Friday 12:10, 16:10 and 20:00, Monday 12:10 and 20:00
RunTimes ==
    { 1440 + 730, 1440 + 970, 1440 + 1200, 4 * 1440 + 730, 4 * 1440 + 1200 }

Runs == { [runAt |-> t, prs |-> q] : t \in RunTimes, q \in Queues }

\* longest log of budget runs
MaxRuns == 2

\* the log is appended to at run time: its runs are in time order
RunLogs ==
    UNION { { log \in [1..n -> Runs] :
                \A i \in 1..(n - 1) : log[i].runAt < log[i + 1].runAt } :
            n \in 0..MaxRuns }

\* windows: from Thursday 00:30, Friday 17:15 or Sunday 17:15 to Monday
\* 17:15, Tuesday 00:30 or Tuesday 20:00, and two weeks from Thursday 00:30
Windows ==
    { [windowStart |-> s, windowEnd |-> e] :
        s \in {30, 1440 + 1035, 3 * 1440 + 1035},
        e \in {4 * 1440 + 1035, 5 * 1440 + 30, 5 * 1440 + 1200} }
    \cup { [windowStart |-> 30, windowEnd |-> 14 * 1440 + 30] }

\* outstanding items of the planner: small ones requested Thursday 12:10,
\* Friday 17:15 and Monday 09:00, a medium one requested Thursday 12:10
PlanEntries ==
    { [loc |-> 100, requestedAt |-> 730],
      [loc |-> 100, requestedAt |-> 1440 + 1035],
      [loc |-> 100, requestedAt |-> 4 * 1440 + 540],
      [loc |-> 600, requestedAt |-> 730] }

PlanLists == UNION { [1..n -> PlanEntries] : n \in 0..MaxPRs }

\* `now` and the next review time: Friday 20:00 to Monday 20:00, Monday
\* 12:10 to Tuesday 12:10, Saturday 09:00 to Tuesday 00:30
PlanTimes ==
    { [now |-> 1440 + 1200, nextReviewTime |-> 4 * 1440 + 1200],
      [now |-> 4 * 1440 + 730, nextReviewTime |-> 5 * 1440 + 730],
      [now |-> 2 * 1440 + 540, nextReviewTime |-> 5 * 1440 + 30] }

\* logs the planner reads: runs of Friday 20:00 and Monday 12:10
PlanLogs ==
    { log \in RunLogs :
        \A i \in DOMAIN log :
            /\ log[i].runAt \in {1440 + 1200, 4 * 1440 + 730}
            /\ Len(log[i].prs) = 1 /\ log[i].prs[1].reviewedAt = Null }

InitBudget ==
    /\ ctx \in BudgetContexts
    /\ op = "idle"
    /\ args = <<>>
    /\ res = <<>>
    /\ caller = <<>>
    /\ file = <<>>
    /\ procs = <<>>

ComputeBadMinutesInWindow ==
    /\ op = "idle"
    /\ \E budgetRuns \in RunLogs, w \in Windows :
        /\ op' = "computeBadMinutesInWindow"
        /\ args' = [budgetRuns |-> budgetRuns,
                    windowStart |-> w.windowStart,
                    windowEnd |-> w.windowEnd]
        /\ res' = computeBadMinutesInWindow(budgetRuns, w.windowStart,
                                            w.windowEnd, ctx)
        /\ caller' = objectsAfterLedger(
                         [budgetRuns |-> budgetRuns,
                          windowStart |-> w.windowStart,
                          windowEnd |-> w.windowEnd])
    /\ UNCHANGED <<ctx, file, procs>>

ComputeSLI ==
    /\ op = "idle"
    /\ \E budgetRuns \in RunLogs, w \in Windows :
        /\ op' = "computeSLI"
        /\ args' = [budgetRuns |-> budgetRuns,
                    windowStart |-> w.windowStart,
                    windowEnd |-> w.windowEnd]
        /\ res' = computeSLI(budgetRuns, w.windowStart, w.windowEnd, ctx)
        /\ caller' = objectsAfterLedger(
                         [budgetRuns |-> budgetRuns,
                          windowStart |-> w.windowStart,
                          windowEnd |-> w.windowEnd])
    /\ UNCHANGED <<ctx, file, procs>>

\* the items are handed over with their deadlines, in any order
ComputeReviewRecommendations ==
    /\ op = "idle"
    /\ \E entries \in PlanLists, budgetRuns \in PlanLogs, t \in PlanTimes :
        LET prs == mapComputeDeadline(MakePRs(entries), ctx.config, ctx,
                                      t.now)
        IN  /\ op' = "computeReviewRecommendations"
            /\ args' = [prs |-> prs, budgetRuns |-> budgetRuns,
                        now |-> t.now, nextReviewTime |-> t.nextReviewTime]
            /\ res' = computeReviewRecommendations(prs, budgetRuns, t.now,
                          t.nextReviewTime, ctx)
            /\ caller' = objectsAfterPlanner(
                             [prs |-> prs, budgetRuns |-> budgetRuns,
                              now |-> t.now,
                              nextReviewTime |-> t.nextReviewTime], ctx)
    /\ UNCHANGED <<ctx, file, procs>>

\* runs of a log as an array holds it: Friday 12:10 or 16:10, nothing
\* outstanding or the item due Friday 12:10
StoredRuns ==
    { [runAt |-> t, prs |-> q] :
        t \in {1440 + 730, 1440 + 970},
        q \in { <<>>, <<RunPR(730, 100, Null)>> } }

\* arrays of runs in any order, two runs of one instant among them
StoredLogs == UNION { [1..n -> StoredRuns] : n \in 0..MaxRuns }

\* the ledger of a stored log, of the log after a run at a later `now` is
\* appended to it, and of the appended log held in the opposite order
ComputeBadMinutesInWindowAppended ==
    /\ op = "idle"
    /\ \E budgetRuns \in StoredLogs, run \in Runs, w \in Windows :
        LET appended == Append(budgetRuns, run)
            reversed == [i \in 1..Len(appended) |->
                            appended[Len(appended) + 1 - i]]
        IN  /\ \A i \in 1..Len(budgetRuns) : budgetRuns[i].runAt < run.runAt
            /\ op' = "computeBadMinutesInWindowAppended"
            /\ args' = [budgetRuns |-> budgetRuns, run |-> run,
                        windowStart |-> w.windowStart,
                        windowEnd |-> w.windowEnd]
            /\ res' = [before |-> computeBadMinutesInWindow(budgetRuns,
                                      w.windowStart, w.windowEnd, ctx),
                       after |-> computeBadMinutesInWindow(appended,
                                     w.windowStart, w.windowEnd, ctx),
                       reordered |-> computeBadMinutesInWindow(reversed,
                                         w.windowStart, w.windowEnd, ctx)]
            /\ caller' = objectsAfterLedger(
                             [budgetRuns |-> reversed,
                              windowStart |-> w.windowStart,
                              windowEnd |-> w.windowEnd])
    /\ UNCHANGED <<ctx, file, procs>>

NextBudget ==
    \/ ComputeBadMinutesInWindow
    \/ ComputeSLI
    \/ ComputeReviewRecommendations
    \/ ComputeBadMinutesInWindowAppended

SpecBudget == InitBudget /\ [][NextBudget]_vars

\* ------------------------------------------ behaviour: configuration
\* DEFAULT_CONFIG of config.ts: the calendar, the SLO and the size buckets
DEFAULT_CONFIG ==
    [businessHours |-> [start |-> 9, end |-> 19, timezone |-> -480],
     businessDays |-> {1, 2, 3, 4, 5},
     slo |-> [target |-> [num |-> 9, den |-> 10], windowDays |-> 30],
     sizeBuckets |-> DefaultBuckets]

\* { ...defaults, ...overrides } for one key: the override when present
spread(default, override) == IF override = Undefined THEN default
                             ELSE override[1]

\* overrides.businessDays || defaults.businessDays: an array, also an empty
\* one, is truthy
mergeConfig(defaults, overrides) ==
    [businessHours |->
        [start |-> spread(defaults.businessHours.start,
                          overrides.businessHours.start),
         end |-> spread(defaults.businessHours.end,
                        overrides.businessHours.end),
         timezone |-> spread(defaults.businessHours.timezone,
                             overrides.businessHours.timezone)],
     businessDays |-> IF overrides.businessDays # Undefined
                      THEN overrides.businessDays[1]
                      ELSE defaults.businessDays,
     slo |-> defaults.slo,
     sizeBuckets |-> defaults.sizeBuckets]

\* loadConfig with the parsed content of config.toml; Undefined when the
\* file does not exist
loadConfig(parsed) ==
    IF parsed = Undefined THEN DEFAULT_CONFIG
    ELSE mergeConfig(DEFAULT_CONFIG, parsed[1])

\* createBusinessTimeContext: holidays is what getHolidaysForRange
\* returned; TZ is the time zone of the process
createBusinessTimeContext(config, ptoIntervals, holidays, TZ) ==
    [config |-> config, TZ |-> TZ, holidays |-> holidays,
     ptoIntervals |-> ptoIntervals]

\* [businessHours] of config.toml: absent, 9-17, 17-9 and 9-9
HoursOverrides ==
    { [start |-> Undefined, end |-> Undefined, timezone |-> Undefined],
      [start |-> <<9>>, end |-> <<17>>, timezone |-> <<0>>],
      [start |-> <<17>>, end |-> <<9>>, timezone |-> Undefined],
      [start |-> <<9>>, end |-> <<9>>, timezone |-> <<0>>] }

\* businessDays of config.toml: absent, [], Mon-Fri, Sat-Sun
DaysOverrides == { Undefined, <<{}>>, <<{1, 2, 3, 4, 5}>>, <<{6, 7}>> }

ParsedConfigs ==
    { Undefined }
    \cup { <<[businessHours |-> h, businessDays |-> d]>> :
             h \in HoursOverrides, d \in DaysOverrides }

InitConfig ==
    /\ ctx = <<>>
    /\ op = "idle"
    /\ args = <<>>
    /\ res = <<>>
    /\ caller = <<>>
    /\ file = <<>>
    /\ procs = <<>>

LoadConfig ==
    /\ op = "idle"
    /\ \E parsed \in ParsedConfigs :
        /\ op' = "loadConfig"
        /\ args' = [parsed |-> parsed]
        /\ res' = loadConfig(parsed)
    /\ UNCHANGED <<ctx, caller, file, procs>>

\* the commands build the context from the loaded configuration
CreateBusinessTimeContext ==
    /\ op = "loadConfig"
    /\ \E ptoIntervals \in PTOChoices, holidays \in HolidayChoices,
          TZ \in TimeZones :
        /\ op' = "createBusinessTimeContext"
        /\ args' = [config |-> res, ptoIntervals |-> ptoIntervals]
        /\ ctx' = createBusinessTimeContext(res, ptoIntervals, holidays, TZ)
        /\ res' = ctx'
    /\ UNCHANGED <<caller, file, procs>>

\* a calendar function run on the context built
CountBusinessMinutesOnContext ==
    /\ op = "createBusinessTimeContext"
    /\ \E start \in Instants, end \in Instants :
        /\ op' = "countBusinessMinutes"
        /\ args' = [start |-> start, end |-> end]
        /\ res' = countBusinessMinutes(start, end, ctx)
    /\ UNCHANGED <<ctx, caller, file, procs>>

NextConfig ==
    \/ LoadConfig
    \/ CreateBusinessTimeContext
    \/ CountBusinessMinutesOnContext

SpecConfig == InitConfig /\ [][NextConfig]_vars

\* ------------------------------------------------ behaviour: the JSONL log
\* storage.ts.  A file is absent (Null) or holds text; text is the sequence
\* of its pieces, a piece being the JSON of a record or a line feed, each
\* a tuple.  file
\* is [dir, log]: whether the data directory exists, and the log file.
\* procs[p] is an execution of appendToJSONL: where it stands (the await it
\* is about to pass), its record, and the text it has read.  Every await
\* hands control to the other execution, whether the two run in one process
\* or in two.
JSON_stringify(record) == <<"json", record>>

\* const line = JSON.stringify(record) + "\n"
lineOf(record) == <<JSON_stringify(record), <<"\n">>>>

\* the text of the log, empty when the file is absent
LogLinesOf(f) == IF f.log = Null THEN <<>> ELSE f.log[1]

\* records of the log: budget runs (or PTO intervals) told apart by an id
Records == {"r1", "r2", "r3", "r4"}

\* the log before the two executions: absent, without or with the data
\* directory, or holding one or two lines
LogsBefore ==
    { [dir |-> FALSE, log |-> Null], [dir |-> TRUE, log |-> Null],
      [dir |-> TRUE, log |-> <<lineOf("r1")>>],
      [dir |-> TRUE, log |-> <<lineOf("r1") \o lineOf("r2")>>] }

Executions == {1, 2}

\* appendBudgetRun(run) / appendPTO(pto): appendToJSONL is entered
Entered(record) ==
    [pc |-> "ensureDataDir", record |-> record, existing |-> Null]

InitStorage ==
    /\ ctx = <<>>
    /\ op = "appendToJSONL"
    /\ args = <<>>
    /\ res = <<>>
    /\ caller = <<>>
    /\ file \in LogsBefore
    /\ \E a, b \in Records :
        /\ a # b
        /\ \A i \in 1..Len(LogLinesOf(file)) : LogLinesOf(file)[i] \notin
               {JSON_stringify(a), JSON_stringify(b)}
        /\ procs = [p \in Executions |->
                       IF p = 1 THEN Entered(a) ELSE Entered(b)]

\* await ensureDataDir(): the directory exists afterwards
EnsureDataDir(p) ==
    /\ procs[p].pc = "ensureDataDir"
    /\ file' = [file EXCEPT !.dir = TRUE]
    /\ procs' = [procs EXCEPT ![p].pc = "exists"]
    /\ UNCHANGED <<ctx, op, args, res, caller>>

\* if (await file.exists())
Exists(p) ==
    /\ procs[p].pc = "exists"
    /\ procs' = [procs EXCEPT ![p].pc =
                    IF file.log # Null THEN "text" ELSE "writeNew"]
    /\ UNCHANGED <<ctx, op, args, res, caller, file>>

\* const existing = await file.text()
Text(p) ==
    /\ procs[p].pc = "text"
    /\ procs' = [procs EXCEPT ![p].pc = "writeAppended",
                              ![p].existing = file.log]
    /\ UNCHANGED <<ctx, op, args, res, caller, file>>

\* await Bun.write(filePath, existing + line)
WriteAppended(p) ==
    /\ procs[p].pc = "writeAppended"
    /\ file' = [file EXCEPT !.log =
                   <<procs[p].existing[1] \o lineOf(procs[p].record)>>]
    /\ procs' = [procs EXCEPT ![p].pc = "done"]
    /\ UNCHANGED <<ctx, op, args, res, caller>>

\* await Bun.write(filePath, line)
WriteNew(p) ==
    /\ procs[p].pc = "writeNew"
    /\ file' = [file EXCEPT !.log = <<lineOf(procs[p].record)>>]
    /\ procs' = [procs EXCEPT ![p].pc = "done"]
    /\ UNCHANGED <<ctx, op, args, res, caller>>

NextStorage ==
    \/ \E p \in Executions : EnsureDataDir(p)
    \/ \E p \in Executions : Exists(p)
    \/ \E p \in Executions : Text(p)
    \/ \E p \in Executions : WriteAppended(p)
    \/ \E p \in Executions : WriteNew(p)

SpecStorage == InitStorage /\ [][NextStorage]_vars

\* ------------------------------------------------- behaviour: the loops
\* The while loops one pass at a time.  op is the loop entered
\* ("<function>:while") or left ("<function>:return"), args the arguments of
\* the call and res the local variables, with the passes made so far.
\* passes a loop is followed for
MaxIterations == 40

WithBusinessDays(c, days) == [c EXCEPT !.config.businessDays = days]

\* calendars with the zones equal or not: Monday to Friday with a holiday
\* on Monday 1970-01-05, PTO on Friday 1970-01-02 and a target of 1, or
\* Wednesday alone with a holiday on Wednesday 1970-01-07 and the default
\* target
LoopContexts ==
    { WithSlo(WithBusinessDays(MakeCtx(tz, TZ, x.h, x.p, DefaultBuckets),
                               x.days),
              x.target, 4) :
        tz \in TimeZones, TZ \in TimeZones,
        x \in { [days |-> {1, 2, 3, 4, 5}, h |-> {4},
                 p |-> <<[start |-> 1, end |-> 1]>>,
                 target |-> [num |-> 1, den |-> 1]],
                [days |-> {3}, h |-> {6}, p |-> <<>>,
                 target |-> [num |-> 9, den |-> 10]] } }

InitLoops ==
    /\ ctx \in LoopContexts
    /\ op = "idle"
    /\ args = <<>>
    /\ res = <<>>
    /\ caller = <<>>
    /\ file = <<>>
    /\ procs = <<>>

\* const result = new Date(startDate); let daysAdded = 0
AddBusinessDaysEnter ==
    /\ op = "idle"
    /\ \E startDate \in Instants, businessDays2 \in Durations :
        /\ op' = "addBusinessDays:while"
        /\ args' = [startDate |-> startDate, businessDays2 |-> businessDays2]
        /\ res' = [result |-> startDate, daysAdded |-> 0, iterations |-> 0]
    /\ UNCHANGED <<ctx, caller, file, procs>>

\* while (daysAdded < businessDays) { ... }
AddBusinessDaysPass ==
    /\ op = "addBusinessDays:while"
    /\ 2 * res.daysAdded < args.businessDays2
    /\ res.iterations < MaxIterations
    /\ LET b == addBusinessDaysBody(res.result, res.daysAdded, ctx)
       IN  res' = [result |-> b.result, daysAdded |-> b.daysAdded,
                   iterations |-> res.iterations + 1]
    /\ UNCHANGED <<ctx, op, args, caller, file, procs>>

\* return result
AddBusinessDaysReturn ==
    /\ op = "addBusinessDays:while"
    /\ ~(2 * res.daysAdded < args.businessDays2)
    /\ op' = "addBusinessDays:return"
    /\ UNCHANGED <<ctx, args, res, caller, file, procs>>

\* getNextReviewTime up to its while loop, or to the return for today
GetNextReviewTimeEnter ==
    /\ op = "idle"
    /\ \E from \in Instants, reviewHour \in ReviewHours :
        LET tzFrom == toTimezone(from, ctx.config.businessHours.timezone,
                                 ctx.TZ)
        IN  /\ args' = [from |-> from, reviewHour |-> reviewHour]
            /\ IF /\ getHours(tzFrom, ctx.TZ) < reviewHour
                  /\ isBusinessDay(from, ctx)
                  /\ ~isPTO(from, ctx.ptoIntervals)
               THEN /\ op' = "getNextReviewTime:return"
                    /\ res' = [result |-> setHours(from, reviewHour, ctx.TZ),
                               iterations |-> 0]
               ELSE /\ op' = "getNextReviewTime:while"
                    /\ res' = [result |-> setDate(from, 1), iterations |-> 0]
    /\ UNCHANGED <<ctx, caller, file, procs>>

\* while (!isBusinessDay(result, ctx) || isPTO(result, ctx.ptoIntervals))
GetNextReviewTimePass ==
    /\ op = "getNextReviewTime:while"
    /\ ~isBusinessDay(res.result, ctx) \/ isPTO(res.result, ctx.ptoIntervals)
    /\ res.iterations < MaxIterations
    /\ res' = [result |-> setDate(res.result, 1),
               iterations |-> res.iterations + 1]
    /\ UNCHANGED <<ctx, op, args, caller, file, procs>>

\* result.setHours(reviewHour, 0, 0, 0); return result
GetNextReviewTimeReturn ==
    /\ op = "getNextReviewTime:while"
    /\ ~(~isBusinessDay(res.result, ctx)
         \/ isPTO(res.result, ctx.ptoIntervals))
    /\ op' = "getNextReviewTime:return"
    /\ res' = [res EXCEPT !.result = setHours(@, args.reviewHour, ctx.TZ)]
    /\ UNCHANGED <<ctx, args, caller, file, procs>>

\* computeReviewRecommendations up to its while loop
MustDoEnter ==
    /\ op = "idle"
    /\ \E entries \in PlanLists, budgetRuns \in PlanLogs, t \in PlanTimes :
        LET prs == mapComputeDeadline(MakePRs(entries), ctx.config, ctx,
                                      t.now)
            windowStart == setDate(t.nextReviewTime,
                                   0 - ctx.config.slo.windowDays)
        IN  /\ op' = "computeReviewRecommendations:while"
            /\ args' = [prs |-> prs, budgetRuns |-> budgetRuns,
                        now |-> t.now, nextReviewTime |-> t.nextReviewTime]
            /\ res' = [mustDoToday |-> <<>>,
                       remainingPRs |-> sortByDeadline(prs),
                       histBadMinutes |->
                           computeBadMinutesInWindow(budgetRuns, windowStart,
                               t.nextReviewTime, ctx),
                       budgetMinutes |->
                           fmulInt(getTotalBusinessMinutesInWindow(
                                       windowStart, t.nextReviewTime, ctx),
                                   oneMinus(ctx.config.slo.target)),
                       iterations |-> 0]
    /\ UNCHANGED <<ctx, caller, file, procs>>

\* totalBadIfNoReview > budgetMinutes for the head of remainingPRs
MustDoOverBudget ==
    fgt(fromInt(res.histBadMinutes
                + projectedBad(getMinDeadline(res.remainingPRs), args.now,
                               args.nextReviewTime, ctx)),
        res.budgetMinutes)

\* a pass that finds the item mandatory: push, slice(1)
MustDoPass ==
    /\ op = "computeReviewRecommendations:while"
    /\ Len(res.remainingPRs) > 0
    /\ MustDoOverBudget
    /\ res.iterations < MaxIterations
    /\ res' = [res EXCEPT !.mustDoToday = Append(@, res.remainingPRs[1]),
                          !.remainingPRs = Tail(@),
                          !.iterations = @ + 1]
    /\ UNCHANGED <<ctx, op, args, caller, file, procs>>

\* a pass that ends in break
MustDoBreak ==
    /\ op = "computeReviewRecommendations:while"
    /\ Len(res.remainingPRs) > 0
    /\ ~MustDoOverBudget
    /\ op' = "computeReviewRecommendations:return"
    /\ res' = [res EXCEPT !.iterations = @ + 1]
    /\ UNCHANGED <<ctx, args, caller, file, procs>>

\* remainingPRs.length > 0 is false
MustDoExhausted ==
    /\ op = "computeReviewRecommendations:while"
    /\ Len(res.remainingPRs) = 0
    /\ op' = "computeReviewRecommendations:return"
    /\ UNCHANGED <<ctx, args, res, caller, file, procs>>

NextLoops ==
    \/ AddBusinessDaysEnter
    \/ AddBusinessDaysPass
    \/ AddBusinessDaysReturn
    \/ GetNextReviewTimeEnter
    \/ GetNextReviewTimePass
    \/ GetNextReviewTimeReturn
    \/ MustDoEnter
    \/ MustDoPass
    \/ MustDoBreak
    \/ MustDoExhausted

\* the steps of a call that has begun
RunLoops ==
    \/ AddBusinessDaysPass
    \/ AddBusinessDaysReturn
    \/ GetNextReviewTimePass
    \/ GetNextReviewTimeReturn
    \/ MustDoPass
    \/ MustDoBreak
    \/ MustDoExhausted

\* a call that has begun runs on: nothing else is scheduled during it
SpecLoops == InitLoops /\ [][NextLoops]_vars /\ WF_vars(RunLoops)

\* ------------------------------------------------ calendar of the claims
\* the calendar day, in the configured time zone, that holds an instant
LocalDay(t, c) == (t + c.config.businessHours.timezone) \div 1440

\* the instant at which minute m of local day D begins
LocalInstant(D, m, c) == D * 1440 + m - c.config.businessHours.timezone

\* day of week of a calendar day, 1 = Monday .. 7 = Sunday
WeekdayOf(D) == IF (D + 4) % 7 = 0 THEN 7 ELSE (D + 4) % 7

\* a qualifying day: configured weekday, no holiday, not within a PTO interval
Qualifying(D, c) ==
    /\ WeekdayOf(D) \in c.config.businessDays
    /\ D \notin c.holidays
    /\ \A i \in DOMAIN c.ptoIntervals :
          D < c.ptoIntervals[i].start \/ D > c.ptoIntervals[i].end

\* number of minutes of [start, end) inside the business hours of local day D
MinutesOnDay(D, start, end, c) ==
    LET open == LocalInstant(D, c.config.businessHours.start * 60, c)
        close == LocalInstant(D, c.config.businessHours.end * 60, c)
    IN  Max(0, Min(end, close) - Max(start, open))

RECURSIVE SumDays(_, _, _, _, _)
SumDays(D, last, start, end, c) ==
    IF D > last THEN 0
    ELSE (IF Qualifying(D, c) THEN MinutesOnDay(D, start, end, c) ELSE 0)
         + SumDays(D + 1, last, start, end, c)

\* the number of business minutes m with start <= m < end
BusinessMinutesIn(start, end, c) ==
    IF start >= end THEN 0
    ELSE SumDays(LocalDay(start, c), LocalDay(end, c), start, end, c)

\* ------------------------------------------------------------------ claims
\* C1: for start < end, the closed-form countBusinessMinutes(start, end)
\* equals the number of minutes of [start, end) that lie on a qualifying
\* local day within the business hours.
C1_ClosedFormCountsBusinessMinutes ==
    (op = "countBusinessMinutes" /\ args.start < args.end)
        => res = BusinessMinutesIn(args.start, args.end, ctx)

\* C2: countBusinessMinutes is additive: for a <= b <= c the count over
\* [a, c) is the sum of the counts over [a, b) and [b, c).
C2_CountIsAdditive ==
    op = "countBusinessMinutesSplit" => res.whole = res.first + res.second

\* the n-th qualifying day strictly after day D
RECURSIVE NthQualifyingDayAfter(_, _, _)
NthQualifyingDayAfter(D, n, c) ==
    IF n = 0 THEN D
    ELSE IF Qualifying(D + 1, c) THEN NthQualifyingDayAfter(D + 1, n - 1, c)
    ELSE NthQualifyingDayAfter(D + 1, n, c)

\* minute of the local day at which an instant falls
LocalTimeOfDay(t, c) == (t + c.config.businessHours.timezone) % 1440

\* C3: for a whole number n >= 1 of days, addBusinessDays(start, n) is the
\* instant on the n-th qualifying day strictly after start's day, at the
\* time of day of start.
C3_AddWholeDaysLandsOnNthQualifyingDay ==
    (op = "addBusinessDays" /\ args.businessDays2 >= 2
        /\ args.businessDays2 % 2 = 0)
        => res = LocalInstant(
                    NthQualifyingDayAfter(LocalDay(args.startDate, ctx),
                                          args.businessDays2 \div 2, ctx),
                    LocalTimeOfDay(args.startDate, ctx), ctx)

\* C4: for every duration d >= 0, whole or fractional, the result of
\* addBusinessDays(start, d) lies d business days of business minutes
\* after start: countBusinessMinutes(start, result) = d * (end - start) * 60.
C4_AddLandsExactBusinessMinutesLater ==
    op = "addBusinessDays"
        => 2 * countBusinessMinutes(args.startDate, res, ctx)
             = args.businessDays2
                 * (ctx.config.businessHours.end
                    - ctx.config.businessHours.start) * 60

\* C5: addBusinessDays(addBusinessDays(d, m), n) = addBusinessDays(d, m + n)
\* for all durations m, n >= 0, whole or fractional, and
\* addBusinessDays(d, 0) = d.
C5_AddComposes ==
    /\ op = "addBusinessDaysTwice" => res.composed = res.direct
    /\ (op = "addBusinessDays" /\ args.businessDays2 = 0)
          => res = args.startDate

\* a rule matches an item: size below the ceiling, and every predicate the
\* rule specifies equal to the item's attribute
Matches(rule, pr) ==
    /\ pr.loc < rule.maxLoc
    /\ (rule.asCodeOwner = Undefined \/ rule.asCodeOwner = <<pr.asCodeOwner>>)
    /\ (rule.requestedReviewer = Undefined
          \/ rule.requestedReviewer = <<pr.requestedReviewer>>)

MatchingRules(pr, config) ==
    { i \in DOMAIN config.sizeBuckets : Matches(config.sizeBuckets[i], pr) }

\* C6: bucketMatchesPR holds exactly of the rules that match; assignBucket
\* returns null iff no rule matches, and otherwise a matching rule whose
\* duration is at most that of every matching rule.
C6_AssignsMostUrgentMatchingRule ==
    op = "assignBucket" =>
        LET rules == ctx.config.sizeBuckets
            matching == MatchingRules(args.pr, ctx.config)
        IN  /\ \A i \in DOMAIN rules :
                  bucketMatchesPR(rules[i], args.pr) <=> i \in matching
            /\ res = Null <=> matching = {}
            /\ res # Null =>
                  \E i \in matching :
                      /\ res = <<rules[i].name, rules[i]>>
                      /\ \A j \in matching :
                            rules[i].businessDays2 <= rules[j].businessDays2

\* an urgent rule wins over a matching rule of smaller ceiling
C6_Witness ==
    /\ op = "assignBucket"
    /\ res # Null
    /\ \E j \in MatchingRules(args.pr, ctx.config) :
          /\ ctx.config.sizeBuckets[j].maxLoc < res[2].maxLoc
          /\ ctx.config.sizeBuckets[j].businessDays2 > res[2].businessDays2

\* C7: an item that matches no rule gets the sentinel deadline and is not
\* overdue at any evaluation instant; an overdue item matches some rule; an
\* empty rule set excludes the item.
C7_ExcludedNeverOverdue ==
    op \in {"computeDeadline", "computeDeadlineNamed"} =>
        LET excluded == MatchingRules(args.pr, ctx.config) = {}
        IN  /\ excluded =>
                  /\ res.deadline = MaxDate
                  /\ res.isOverdue = FALSE
                  /\ op = "computeDeadline" => res.bucket = "excluded"
                  /\ op = "computeDeadlineNamed" => res.bucket = Null
            /\ res.isOverdue => ~excluded
            /\ ctx.config.sizeBuckets = <<>> => excluded

\* an empty rule set, evaluated four days or more after the request
C7_Witness ==
    /\ op = "computeDeadline"
    /\ ctx.config.sizeBuckets = <<>>
    /\ args.wallClock >= args.pr.requestedAt + 4 * 1440
    /\ res.isOverdue = FALSE

\* C8: for a non-excluded item, deadline = addBusinessDays(requestedAt,
\* duration of the assigned bucket) and isOverdue = (now > deadline) for the
\* evaluation instant `now` of the caller, whatever the clock reads during
\* the call.
C8_OverdueAtCallersNow ==
    (op = "computeDeadline" /\ res.bucket # "excluded") =>
        /\ \E i \in DOMAIN ctx.config.sizeBuckets :
              /\ ctx.config.sizeBuckets[i].name = res.bucket
              /\ res.deadline =
                    addBusinessDays(args.pr.requestedAt,
                        ctx.config.sizeBuckets[i].businessDays2, ctx)
        /\ res.isOverdue = (args.now > res.deadline)

\* C9: computePRDeadlines returns the non-excluded items, each once, by
\* non-decreasing deadline, equal deadlines in input order; getMinDeadline of
\* it is the least deadline of the non-excluded items, null if there is none.
C9_DeadlinesFilteredAndStablySorted ==
    op = "computePRDeadlines" =>
        LET prs == args.prs
            out == res.sorted
            kept == { i \in DOMAIN prs :
                        MatchingRules(prs[i], ctx.config) # {} }
        IN  /\ Len(out) = Cardinality(kept)
            /\ { out[k].number : k \in DOMAIN out } = kept
            /\ \A k \in DOMAIN out :
                  /\ out[k].loc = prs[out[k].number].loc
                  /\ out[k].requestedAt = prs[out[k].number].requestedAt
            /\ \A k \in DOMAIN out, l \in DOMAIN out :
                  k < l =>
                    /\ out[k].deadline <= out[l].deadline
                    /\ out[k].deadline = out[l].deadline
                          => out[k].number < out[l].number
            /\ kept = {} => res.minDeadline = Null
            /\ kept # {} =>
                  /\ \E k \in DOMAIN out : res.minDeadline = <<out[k].deadline>>
                  /\ \A k \in DOMAIN out :
                        res.minDeadline[1] <= out[k].deadline

\* one item dropped, and the two kept ones returned in the reverse of
\* their input order
C9_Witness ==
    /\ op = "computePRDeadlines"
    /\ Len(args.prs) = 3
    /\ Len(res.sorted) = 2
    /\ res.sorted[1].number > res.sorted[2].number
    /\ res.minDeadline = <<res.sorted[1].deadline>>

\* C10: of two items of the same bucket, the one requested no later has
\* the deadline that is no later.
C10_DeadlineMonotoneInRequestTime ==
    op = "computePRDeadlines" =>
        \A k \in DOMAIN res.sorted, l \in DOMAIN res.sorted :
            (/\ res.sorted[k].bucket = res.sorted[l].bucket
             /\ res.sorted[k].requestedAt <= res.sorted[l].requestedAt)
                => res.sorted[k].deadline <= res.sorted[l].deadline

\* ------------------------------------------------------ claims: the ledger
\* the rule of the size ladder for a size: the least ceiling above it
LadderRules(loc, config) ==
    { i \in DOMAIN config.sizeBuckets :
        /\ loc < config.sizeBuckets[i].maxLoc
        /\ \A j \in DOMAIN config.sizeBuckets :
              loc < config.sizeBuckets[j].maxLoc
                  => config.sizeBuckets[i].maxLoc
                        <= config.sizeBuckets[j].maxLoc }

\* the recomputed deadlines of the items of a snapshot that have a bucket
\* and are not reviewed at or before the snapshot
OpenDeadlines(run, c) ==
    UNION { { addBusinessDays(run.prs[k].requestedAt,
                              c.config.sizeBuckets[i].businessDays2, c) :
                i \in LadderRules(run.prs[k].loc, c.config) } :
            k \in { k \in DOMAIN run.prs :
                      run.prs[k].reviewedAt = Null
                          \/ run.prs[k].reviewedAt[1] > run.runAt } }

SetMin(S) == CHOOSE x \in S : \A y \in S : x <= y
SetMax(S) == CHOOSE x \in S : \A y \in S : x >= y

\* what a snapshot contributes, given the instants of the snapshots that
\* count as preceding it
Contribution(run, before, windowStart, windowEnd, c) ==
    LET D == OpenDeadlines(run, c)
    IN  IF D = {} \/ SetMin(D) >= run.runAt THEN 0
        ELSE LET d == SetMin(D)
                 from == IF before = {} THEN d ELSE Max(SetMax(before), d)
             IN  countBusinessMinutes(Max(from, windowStart),
                                      Min(run.runAt, windowEnd), c)

RECURSIVE SumOf(_, _)
SumOf(S, f) ==
    IF S = {} THEN 0
    ELSE LET x == CHOOSE x \in S : TRUE
         IN  f[x] + SumOf(S \ {x}, f)

\* the snapshots whose instant lies in the window
SelectedRuns(log, windowStart, windowEnd) ==
    { i \in DOMAIN log :
        log[i].runAt >= windowStart /\ log[i].runAt <= windowEnd }

\* C11: computeBadMinutesInWindow is the sum, over the selected snapshots,
\* of the business minutes of [max(prev.runAt, d), curr.runAt) clipped to
\* the window, where prev is the preceding selected snapshot and d the least
\* recomputed deadline of the items of curr that have a bucket and are not
\* reviewed at or before curr.runAt; a snapshot without such d, or with
\* d >= curr.runAt, contributes 0.
C11_LedgerSumsPerSnapshotContributions ==
    op = "computeBadMinutesInWindow" =>
        LET log == args.budgetRuns
            sel == SelectedRuns(log, args.windowStart, args.windowEnd)
            contrib == [i \in sel |->
                Contribution(log[i],
                    { log[j].runAt : j \in { j \in sel :
                                      log[j].runAt < log[i].runAt } },
                    args.windowStart, args.windowEnd, ctx)]
        IN  res = SumOf(sel, contrib)

\* two snapshots show the item due Friday 12:10: at 12:10, not yet late,
\* and at 16:10, four business hours late
C11_Witness ==
    /\ op = "computeBadMinutesInWindow"
    /\ Len(args.budgetRuns) = 2
    /\ args.budgetRuns[1].runAt = 1440 + 730
    /\ args.budgetRuns[2].runAt = 1440 + 970
    /\ args.budgetRuns[2].prs = <<RunPR(730, 100, Null)>>
    /\ args.windowStart <= 1440 + 730
    /\ args.windowEnd >= 1440 + 970
    /\ res = 240

\* C12: every snapshot of the log whose observation interval
\* (prev.runAt, runAt] overlaps the window is taken into account, prev being
\* the snapshot that precedes it in the log: the part of its bad interval
\* inside the window is counted also when runAt is after windowEnd.
C12_SnapshotsSelectedByOverlap ==
    op = "computeBadMinutesInWindow" =>
        LET log == args.budgetRuns
            all == DOMAIN log
            contrib == [i \in all |->
                Contribution(log[i],
                    { log[j].runAt : j \in { j \in all :
                                      log[j].runAt < log[i].runAt } },
                    args.windowStart, args.windowEnd, ctx)]
        IN  res = SumOf(all, contrib)

\* --------------------------------------------------------- claims: the SLI
\* the fields of an SLIResult that do not depend on how a product or a
\* difference with the target is rounded
SLICountsAndRatio(r, a, c) ==
    LET total == countBusinessMinutes(a.windowStart, a.windowEnd, c)
        bad == computeBadMinutesInWindow(a.budgetRuns, a.windowStart,
                                         a.windowEnd, c)
        target == c.config.slo.target
    IN  /\ r.totalBusinessMinutes = total
        /\ r.badMinutes = bad
        /\ r.goodMinutes = total - bad
        /\ r.sli.err = 0
        /\ IF total > 0
           THEN r.sli.num * total = (total - bad) * r.sli.den
           ELSE r.sli.num = r.sli.den
        /\ r.isMet <=> IF total > 0
                       THEN (total - bad) * target.den >= target.num * total
                       ELSE target.den >= target.num

\* budgetMinutes and budgetRemaining approximate total * (1 - target) and
\* total * (1 - target) - bad
SLIBudgetNear(r, c) ==
    LET target == c.config.slo.target
    IN  /\ r.budgetMinutes.num * target.den
              = r.totalBusinessMinutes * (target.den - target.num)
                    * r.budgetMinutes.den
        /\ r.budgetRemaining.num * target.den
              = (r.totalBusinessMinutes * (target.den - target.num)
                    - r.badMinutes * target.den) * r.budgetRemaining.den

C14_VerdictAgreesWithBudget ==
    op = "computeSLI" =>
        /\ res.isMet <=> ~fgt(fromInt(res.badMinutes), res.budgetMinutes)
        /\ res.isMet <=> fge(res.budgetRemaining, fromInt(0))
        /\ res.badMinutes = 0 =>
              /\ res.isMet
              /\ res.totalBusinessMinutes > 0 => res.sli.num = res.sli.den

\* ----------------------------------------------------- claims: the planner
\* a recommendation without the two fields the planner adds
PlainPR(x) ==
    [f \in DOMAIN x \ {"savedBadMinutes", "percentOfRemainingBudget"} |->
        x[f]]

PlainPRs(xs) == [i \in DOMAIN xs |-> PlainPR(xs[i])]

\* the items from position i on
Suffix(xs, i) == SubSeq(xs, i, Len(xs))

NumbersOf(xs) == { xs[i].number : i \in DOMAIN xs }

\* the projected burn of a list of outstanding items
ProjectedBurn(list, now, nextCheckTime, c) ==
    LET D == { list[i].deadline : i \in DOMAIN list }
    IN  IF D = {} \/ SetMin(D) >= nextCheckTime THEN 0
        ELSE countBusinessMinutes(SetMax({now, SetMin(D)}), nextCheckTime, c)

\* the items left once mustDoToday is taken off the sorted list
RemainingOf(a, r) == Suffix(sortByDeadline(a.prs), Len(r.mustDoToday) + 1)

\* C15: mustDoToday is a prefix of the items sorted by deadline, extraCredit
\* is a sub-sequence of the rest of the sorted list; no item is in both lists
\* or twice in one, and every input item is in exactly one of mustDoToday,
\* extraCredit and the deferrable rest.
C15_MustDoPrefixAndPartition ==
    op = "computeReviewRecommendations" =>
        LET sorted == sortByDeadline(args.prs)
            m == res.mustDoToday
            e == PlainPRs(res.extraCredit)
            remaining == RemainingOf(args, res)
            rest == { n \in NumbersOf(args.prs) :
                        n \notin NumbersOf(m) \cup NumbersOf(e) }
        IN  /\ Len(m) <= Len(sorted)
            /\ m = SubSeq(sorted, 1, Len(m))
            /\ \E pos \in [DOMAIN e -> DOMAIN remaining] :
                  /\ \A j \in DOMAIN e : remaining[pos[j]] = e[j]
                  /\ \A j, k \in DOMAIN e : j < k => pos[j] < pos[k]
            /\ Cardinality(NumbersOf(m)) = Len(m)
            /\ Cardinality(NumbersOf(e)) = Len(e)
            /\ NumbersOf(m) \cap NumbersOf(e) = {}
            /\ Len(m) + Len(e) + Cardinality(rest) = Len(args.prs)

\* three items handed over out of order: one must be done, one is extra
\* credit, one can wait
C15_Witness ==
    /\ op = "computeReviewRecommendations"
    /\ Len(args.prs) = 3
    /\ args.prs # sortByDeadline(args.prs)
    /\ Len(res.mustDoToday) = 1
    /\ Len(res.extraCredit) = 1
    /\ res.mustDoToday[1].number # res.extraCredit[1].number

\* the budget is exceeded when the first j sorted items are resolved now and
\* the others wait
OverBudget(j, a, r, c) ==
    fgt(fromInt(r.histBadMinutes
                + ProjectedBurn(Suffix(sortByDeadline(a.prs), j + 1),
                                a.now, a.nextReviewTime, c)),
        r.budgetMinutes)

C17_ProjectedBurnMonotone ==
    op = "computeReviewRecommendations" =>
        LET sorted == sortByDeadline(args.prs)
        IN  \A i \in DOMAIN sorted :
                projectedBad(getMinDeadline(Suffix(sorted, i + 1)),
                             args.now, args.nextReviewTime, ctx)
                    <= projectedBad(getMinDeadline(Suffix(sorted, i)),
                                    args.now, args.nextReviewTime, ctx)

\* C18: savedBadMinutes of the extra-credit item at position i of the
\* remaining items = projectedBad(remaining) - projectedBad(remaining
\* without items 0..i); hence 0 <= savedBadMinutes <= projectedBad(remaining).
C18_SavedAgainstRemainingBaseline ==
    op = "computeReviewRecommendations" =>
        LET remaining == RemainingOf(args, res)
            base == ProjectedBurn(remaining, args.now, args.nextReviewTime,
                                  ctx)
        IN  \A j \in DOMAIN res.extraCredit :
                LET x == res.extraCredit[j]
                    i == CHOOSE i \in DOMAIN remaining :
                             remaining[i].number = x.number
                IN  /\ x.savedBadMinutes =
                          base - ProjectedBurn(Suffix(remaining, i + 1),
                                     args.now, args.nextReviewTime, ctx)
                    /\ 0 <= x.savedBadMinutes
                    /\ x.savedBadMinutes <= base

\* the items of a list due before an instant, in order
RECURSIVE DueBefore(_, _)
DueBefore(list, t) ==
    IF list = <<>> THEN <<>>
    ELSE (IF Head(list).deadline < t THEN <<Head(list)>> ELSE <<>>)
         \o DueBefore(Tail(list), t)

\* C19: extraCredit holds exactly the remaining items due strictly before
\* the next review time, in deadline order.
C19_ExtraCreditIsDueBeforeNextCheck ==
    op = "computeReviewRecommendations" =>
        /\ PlainPRs(res.extraCredit) =
              DueBefore(RemainingOf(args, res), args.nextReviewTime)
        /\ \A j \in DOMAIN res.extraCredit :
              res.extraCredit[j].deadline < args.nextReviewTime

\* a remaining item due at the next review time is left out, one due before
\* it is extra credit
C19_Witness ==
    /\ op = "computeReviewRecommendations"
    /\ Len(res.extraCredit) > 0
    /\ \E i \in DOMAIN args.prs :
          /\ args.prs[i].deadline >= args.nextReviewTime
          /\ args.prs[i].number \notin NumbersOf(res.mustDoToday)

\* C20: percentOfRemainingBudget = clamp(savedBadMinutes / (budget -
\* histBad), 0, 1): within [0, 1], and 0 when the remaining budget is zero
\* or negative.
C20_PercentIsClampedShare ==
    op = "computeReviewRecommendations" =>
        LET rb == fsubInt(res.budgetMinutes, res.histBadMinutes)
        IN  \A j \in DOMAIN res.extraCredit :
                LET x == res.extraCredit[j]
                    p == x.percentOfRemainingBudget
                IN  /\ fge(p, fromInt(0))
                    /\ fge(fromInt(1), p)
                    /\ ~fgt(rb, fromInt(0)) => p = fromInt(0)
                    /\ fgt(rb, fromInt(0)) =>
                          IF x.savedBadMinutes <= 0 THEN p = fromInt(0)
                          ELSE IF fge(fromInt(x.savedBadMinutes), rb)
                               THEN p = fromInt(1)
                          ELSE p.num * rb.num
                                  = x.savedBadMinutes * rb.den * p.den

\* shares of 0 by lack of budget, strictly between 0 and 1, and cut to 1
C20_Witness ==
    /\ op = "computeReviewRecommendations"
    /\ \E j \in DOMAIN res.extraCredit :
          LET x == res.extraCredit[j]
          IN  /\ x.savedBadMinutes > 0
              /\ fgt(x.percentOfRemainingBudget, fromInt(0))
              /\ flt(x.percentOfRemainingBudget, fromInt(1))

\* ------------------------------------------- claims: the calendar, part 2
\* C21: getNextReviewTime(from, hourOfDay) is hourOfDay:00 of from's local
\* day when that day qualifies and from's local hour is before hourOfDay,
\* and hourOfDay:00 of the first qualifying day after it otherwise; the
\* result is later than from and falls on a qualifying day.
C21_NextReviewTimeOnNextQualifyingDay ==
    op = "getNextReviewTime" =>
        LET D == LocalDay(args.from, ctx)
            today == /\ Qualifying(D, ctx)
                     /\ LocalTimeOfDay(args.from, ctx) \div 60
                           < args.reviewHour
            day == IF today THEN D ELSE NthQualifyingDayAfter(D, 1, ctx)
        IN  /\ res = LocalInstant(day, args.reviewHour * 60, ctx)
            /\ res > args.from
            /\ Qualifying(LocalDay(res, ctx), ctx)

\* the local days on which minutes of [start, end) fall
LocalDaysOf(start, end, c) == LocalDay(start, c)..LocalDay(end - 1, c)

InPTO(D, c) ==
    \E i \in DOMAIN c.ptoIntervals :
        D >= c.ptoIntervals[i].start /\ D <= c.ptoIntervals[i].end

WithoutPTO(c) == [c EXCEPT !.ptoIntervals = <<>>]

\* C22: PTO counts by whole local calendar day: minutes on local days
\* within a PTO interval are dropped from countBusinessMinutes, PTO on
\* other local days removes nothing, and addBusinessDays never lands on a
\* local day within a PTO interval.
C22_PTOByLocalDay ==
    /\ (op = "countBusinessMinutes" /\ args.start < args.end) =>
          LET days == LocalDaysOf(args.start, args.end, ctx)
          IN  /\ (\A D \in days : InPTO(D, ctx)) => res = 0
              /\ (\A D \in days : ~InPTO(D, ctx)) =>
                    res = countBusinessMinutes(args.start, args.end,
                                               WithoutPTO(ctx))
    /\ (op = "addBusinessDays" /\ args.businessDays2 > 0) =>
          ~InPTO(LocalDay(res, ctx), ctx)

\* C23: countBusinessMinutes(a, b) = 0 whenever a >= b, for every
\* calendar, and the result is never negative.
C23_EmptyIntervalCountsZero ==
    op = "countBusinessMinutes" =>
        /\ args.start >= args.end => res = 0
        /\ res >= 0

\* a valid calendar configuration: the business day ends after it starts
\* and at least one weekday is configured
ValidCalendar(config) ==
    /\ config.businessHours.end > config.businessHours.start
    /\ config.businessDays # {}

\* C24: an invalid calendar configuration is rejected when the context is
\* constructed: no context holds one and no calendar function runs on one.
C24_InvalidCalendarRejected ==
    op \in {"createBusinessTimeContext", "countBusinessMinutes"}
        => ValidCalendar(ctx.config)

\* ------------------------------------------------ claims: frame, history
\* C25: the planner and the ledger leave their inputs unchanged: after the
\* call the caller's item list, snapshot sequence, now, nextReviewTime,
\* windowStart and windowEnd are as before the call.
C25_InputsUnchanged ==
    /\ op = "computeBadMinutesInWindow" =>
          /\ caller.budgetRuns = args.budgetRuns
          /\ caller.windowStart = args.windowStart
          /\ caller.windowEnd = args.windowEnd
    /\ op = "computeReviewRecommendations" =>
          /\ caller.prs = args.prs
          /\ caller.budgetRuns = args.budgetRuns
          /\ caller.now = args.now
          /\ caller.nextReviewTime = args.nextReviewTime

\* items handed over out of deadline order, with a log of two snapshots
C25_Witness ==
    /\ op = "computeReviewRecommendations"
    /\ args.prs # sortByDeadline(args.prs)
    /\ Len(args.budgetRuns) = 2
    /\ caller.prs = args.prs

\* ------------------------------------------------ claims: the two assigners
SameBucket(r) ==
    \/ r.ladder = Null /\ r.named = Null
    \/ r.ladder # Null /\ r.named # Null /\ r.ladder[1] = r.named[1]

DurationsGrowWithCeilings(config) ==
    \A i, j \in DOMAIN config.sizeBuckets :
        i # j =>
            \/ /\ config.sizeBuckets[i].maxLoc < config.sizeBuckets[j].maxLoc
               /\ config.sizeBuckets[i].businessDays2
                     < config.sizeBuckets[j].businessDays2
            \/ /\ config.sizeBuckets[j].maxLoc < config.sizeBuckets[i].maxLoc
               /\ config.sizeBuckets[j].businessDays2
                     < config.sizeBuckets[i].businessDays2

C27_BadMinutesWithinTotal ==
    op = "computeSLI" =>
        /\ 0 <= res.badMinutes
        /\ res.badMinutes <= res.totalBusinessMinutes
        /\ res.goodMinutes >= 0
        /\ fge(res.sli, fromInt(0))
        /\ fge(fromInt(1), res.sli)

\* what the ledger says of a log, of the log with a later run appended and
\* of the appended log in the opposite order: the count has not decreased,
\* it has grown by the contribution of the appended run alone, and the two
\* orders give the same count
HistoryOnlyGrows ==
    LET log == args.budgetRuns
        sel == SelectedRuns(log, args.windowStart, args.windowEnd)
        added == IF /\ args.run.runAt >= args.windowStart
                    /\ args.run.runAt <= args.windowEnd
                 THEN Contribution(args.run, { log[j].runAt : j \in sel },
                                   args.windowStart, args.windowEnd, ctx)
                 ELSE 0
    IN  /\ res.after >= res.before
        /\ res.after - res.before = added
        /\ res.reordered = res.after

IsPrefix(s, t) == Len(s) <= Len(t) /\ SubSeq(t, 1, Len(s)) = s

\* the text holds the line of the record
HoldsRecord(text, record) ==
    \E i \in 1..(Len(text) - 1) :
        text[i] = <<"json", record>> /\ text[i + 1] = <<"\n">>

BothCompleted == \A p \in DOMAIN procs : procs[p].pc = "done"

\* C29: under every interleaving of two appendToJSONL executions on one
\* file no step removes or overwrites a record already in the file, and
\* once both have completed the file holds both new records.
C29_AppendOnlyUnderInterleaving ==
    /\ [][IsPrefix(LogLinesOf(file), LogLinesOf(file'))]_vars
    /\ [](BothCompleted =>
            \A p \in DOMAIN procs :
                HoldsRecord(LogLinesOf(file), procs[p].record))

====
